---- MODULE Spec2Model ----
(***************************************************************************)
(* TMDB poster importer: the concurrent batch-fetch pipeline of            *)
(* src/code.py (src/code_2.py is the same pipeline without the log file).  *)
(*                                                                         *)
(* Strings are sequences of one-character strings, so that the regular     *)
(* expressions of extract_movie_info and the substring test of the         *)
(* orchestrator are computed, character by character, as the code does.    *)
(***************************************************************************)
EXTENDS Integers, Sequences, FiniteSets, TLC

(***************************************************************************)
(* Character classes and string helpers (Python's str and re).             *)
(***************************************************************************)
Digits == {"0", "1", "2", "3", "4", "5", "6", "7", "8", "9"}

Whitespace == {" "}

OpenBrackets == {"(", "["}

\* s[from..] (1-based), the empty string when from is past the end.
Drop(s, from) == SubSeq(s, from, Len(s))

\* s.startswith(lit, at): lit occurs in s at position at.
StartsWithAt(s, lit, at) ==
    /\ at + Len(lit) - 1 <= Len(s)
    /\ \A k \in 1..Len(lit) : s[at + k - 1] = lit[k]

\* lit in s
Contains(s, lit) == \E at \in 1..(Len(s) + 1) : StartsWithAt(s, lit, at)

\* s.replace(lit, ""): every non-overlapping occurrence, left to right.
RECURSIVE RemoveAll(_, _)
RemoveAll(s, lit) ==
    IF s = <<>> THEN <<>>
    ELSE IF StartsWithAt(s, lit, 1) THEN RemoveAll(Drop(s, Len(lit) + 1), lit)
    ELSE <<s[1]>> \o RemoveAll(Drop(s, 2), lit)

\* s.strip()
RECURSIVE LStrip(_)
LStrip(s) ==
    IF s # <<>> /\ s[1] \in Whitespace THEN LStrip(Drop(s, 2)) ELSE s

RECURSIVE RStrip(_)
RStrip(s) ==
    IF s # <<>> /\ s[Len(s)] \in Whitespace
    THEN RStrip(SubSeq(s, 1, Len(s) - 1)) ELSE s

Strip(s) == RStrip(LStrip(s))

\* The number of leading characters of s[at..] that lie in class.
RECURSIVE RunLen(_, _, _)
RunLen(s, at, class) ==
    IF at <= Len(s) /\ s[at] \in class THEN 1 + RunLen(s, at + 1, class) ELSE 0

(***************************************************************************)
(* Literals of the source.                                                 *)
(***************************************************************************)
DotTorrent == <<".", "t", "o", "r", "r", "e", "n", "t">>

DotJpg == <<".", "j", "p", "g">>

AlreadyExistsText ==
    <<"a", "l", "r", "e", "a", "d", "y", " ", "e", "x", "i", "s", "t", "s">>

\* The literal alternatives of the clean-up pattern, in the pattern's order.
QualityTags ==
    << <<"1", "0", "8", "0", "p">>,
       <<"7", "2", "0", "p">>,
       <<"B", "l", "u", "R", "a", "y">>,
       <<"W", "E", "B", "R", "i", "p">>,
       <<"Y", "T", "S", ".", "M", "X">>,
       <<"Y", "T", "S">> >>

YearDigits == 4

(***************************************************************************)
(* extract_movie_info                                                      *)
(***************************************************************************)
YearAt_NoBracket(name, at) ==
    LET d == at + RunLen(name, at, Whitespace)
    IN  IF /\ d + YearDigits - 1 <= Len(name)
           /\ \A k \in 0..(YearDigits - 1) : name[d + k] \in Digits
        THEN d ELSE 0

\* \s*[\(\[]?(\d{4}) matched at position at of name: the position of the
\* first digit of the year, 0 when the tail does not match.  The white
\* space run is taken whole and a following bracket must be taken, since
\* neither is a digit.  The closing bracket the pattern allows after the
\* year is in no group and changes no result.
YearAt(name, at) ==
    LET ws == RunLen(name, at, Whitespace)
        b  == IF at + ws <= Len(name) /\ name[at + ws] \in OpenBrackets
              THEN 1 ELSE 0
        d  == at + ws + b
    IN  IF /\ d + YearDigits - 1 <= Len(name)
           /\ \A k \in 0..(YearDigits - 1) : name[d + k] \in Digits
        THEN d ELSE 0

TitleLen_Greedy(name) ==
    LET ok == {n \in 1..Len(name) : YearAt(name, n + 1) # 0}
    IN  IF ok = {} THEN 0 ELSE CHOOSE n \in ok : \A m \in ok : n >= m

\* ^(.+?): the shortest non-empty prefix after which the year pattern
\* matches; 0 when re.search finds nothing.
TitleLen(name) ==
    LET ok == {n \in 1..Len(name) : YearAt(name, n + 1) # 0}
    IN  IF ok = {} THEN 0 ELSE CHOOSE n \in ok : \A m \in ok : n <= m

\* The length of the match of the clean-up pattern at position at of t,
\* 0 when no alternative matches there (no alternative matches empty).
TagLenAt(t, at) ==
    LET closeSq == {k \in (at + 1)..Len(t) : t[k] = "]"}
        closeRd == {k \in (at + 1)..Len(t) : t[k] = ")"}
        lits    == {k \in 1..Len(QualityTags) : StartsWithAt(t, QualityTags[k], at)}
        first(S) == CHOOSE k \in S : \A m \in S : k <= m
    IN  IF t[at] = "[" /\ closeSq # {} THEN first(closeSq) - at + 1
        ELSE IF t[at] = "(" /\ closeRd # {} THEN first(closeRd) - at + 1
        ELSE IF lits # {} THEN Len(QualityTags[first(lits)])
        ELSE IF /\ StartsWithAt(t, <<"S", ".">>, at)
                /\ RunLen(t, at + 2, Digits) > 0
             THEN 2 + RunLen(t, at + 2, Digits)
        ELSE 0

\* re.sub(pattern, '', t) from position at on.
RECURSIVE StripTags(_, _)
StripTags(t, at) ==
    IF at > Len(t) THEN <<>>
    ELSE LET n == TagLenAt(t, at)
         IN  IF n > 0 THEN StripTags(t, at + n)
             ELSE <<t[at]>> \o StripTags(t, at + 1)

\* (title, year); <<>> for both stands for (None, None): the caller tests
\* both with `not`, which None and the empty string satisfy alike.
extract_movie_info(filename) ==
    LET name == RemoveAll(filename, DotTorrent)
        n    == TitleLen(name)
        y    == YearAt(name, n + 1)
    IN  IF n = 0 THEN [title |-> <<>>, year |-> <<>>]
        ELSE [title |-> Strip(StripTags(Strip(SubSeq(name, 1, n)), 1)),
              year  |-> SubSeq(name, y, y + YearDigits - 1)]

\* Path.stem: the name without its last suffix; a leading or trailing dot
\* starts no suffix.
Stem(filename) ==
    LET dots == {k \in 1..Len(filename) : filename[k] = "."}
        last == CHOOSE k \in dots : \A m \in dots : m <= k
    IN  IF dots = {} THEN filename
        ELSE IF last > 1 /\ last < Len(filename)
             THEN SubSeq(filename, 1, last - 1)
        ELSE filename

poster_filename(filename) == Stem(filename) \o DotJpg

(***************************************************************************)
(* The target directory.  Filenames is the pool the directory's *.torrent   *)
(* files are drawn from; an item is identified by its index in the pool.    *)
(***************************************************************************)
Filenames ==
    << <<"U", "p", " ", "(", "2", "0", "0", "9", ")", " ", "7", "2", "0", "p", ".", "t", "o", "r", "r", "e", "n", "t">>,
       <<"H", "e", "a", "t", " ", "1", "9", "9", "5", ".", "t", "o", "r", "r", "e", "n", "t">>,
       <<"U", "n", "t", "i", "t", "l", "e", "d", ".", "t", "o", "r", "r", "e", "n", "t">>,
       <<"Y", "T", "S", " ", "2", "0", "1", "2", ".", "t", "o", "r", "r", "e", "n", "t">>,
       <<"a", "l", "r", "e", "a", "d", "y", " ", "e", "x", "i", "s", "t", "s", " ", "2", "0", "1", "0", ".", "t", "o", "r", "r", "e", "n", "t">>,
       <<"J", "a", "w", "s", " ", "1", "9", "7", "5", ".", "t", "o", "r", "r", "e", "n", "t">>,
       <<"A", "l", "i", "e", "n", " ", "1", "9", "7", "9", ".", "t", "o", "r", "r", "e", "n", "t">>,
       <<"R", "o", "c", "k", "y", " ", "1", "9", "7", "6", ".", "t", "o", "r", "r", "e", "n", "t">>,
       <<"F", "a", "r", "g", "o", " ", "1", "9", "9", "6", ".", "t", "o", "r", "r", "e", "n", "t">>,
       <<"S", "e", "v", "e", "n", " ", "1", "9", "9", "5", ".", "t", "o", "r", "r", "e", "n", "t">>,
       <<"S", "p", "e", "e", "d", " ", "1", "9", "9", "4", ".", "t", "o", "r", "r", "e", "n", "t">>,
       <<"B", "a", "b", "e", " ", "1", "9", "9", "5", ".", "t", "o", "r", "r", "e", "n", "t">>,
       <<"B", "i", "g", " ", "1", "9", "8", "8", ".", "t", "o", "r", "r", "e", "n", "t">> >>

Items == 1..Len(Filenames)

\* The files the directories of the batch specification are drawn from:
\* two names that parse, one without a year, one whose title is all tag.
BatchItems == 1..4

\* A file whose name holds the words the orchestrator looks for in a message.
NamedItem == 5

\* The most *.torrent files the directory holds.
MaxFiles == 2

\* The number of times the batch is run on the directory.
MaxRuns == 2

MAX_WORKERS == 10

\* The item whose artifact path is that of item i: the file system is keyed
\* by path, and two items with one poster filename share one file.
PathIndex ==
    [i \in Items |->
        CHOOSE j \in Items :
            /\ poster_filename(Filenames[j]) = poster_filename(Filenames[i])
            /\ \A k \in Items :
                  poster_filename(Filenames[k]) = poster_filename(Filenames[i])
                      => j <= k]

PathOf(i) == PathIndex[i]

Paths == {PathOf(i) : i \in Items}

\* What a path holds: nothing, a poster that was there before the first
\* run, the complete bytes of a fetched poster, or the remains of a write
\* that failed after the file was opened.
Contents == {"absent", "old", "poster", "truncated"}

(***************************************************************************)
(* The HTTP session: urllib3's Retry under requests' HTTPAdapter.           *)
(***************************************************************************)
\* Retry(total=3): the number of retries allowed after the first attempt.
RetryTotal == 3

status_forcelist == {429, 500, 502, 503, 504}

\* The statuses the remote service answers with in the model.
Statuses == {200, 404, 503}

TransportError == [kind |-> "error", status |-> 0]

\* One HTTP attempt's outcome: a response with a status, or a transport
\* failure (connection error, timeout).
Responses == {TransportError} \cup {[kind |-> "http", status |-> s] : s \in Statuses}

NoResponse == [kind |-> "none", status |-> 0]

\* What a 200 search response carries: a body whose transfer breaks, a body
\* that is no JSON, JSON without a usable 'results' entry, an empty result
\* list, a first result with or without a poster_path, or a first result
\* that is no JSON object.
SearchBodies ==
    {"broken", "bad_json", "no_results", "empty", "poster", "no_poster", "not_object"}

\* What a 200 image response carries: the complete bytes, or a transfer
\* that breaks midway.
ImageBodies == {"complete", "broken"}

\* open(save_path, 'wb') and f.write: both succeed, open fails, or the
\* write fails after open created the file.
WriteOutcomes == {"ok", "open_error", "write_error"}

(***************************************************************************)
(* The messages of process_single_torrent.                                 *)
(***************************************************************************)
MsgParse == 
    <<"C", "o", "u", "l", "d", " ", "n", "o", "t", " ", "p", "a", "r", "s", "e", " ", "m", "o", "v", "i", "e", " ", "i", "n", "f", "o">>

MsgExistsPrefix == 
    <<"P", "o", "s", "t", "e", "r", " ", "a", "l", "r", "e", "a", "d", "y", " ", "e", "x", "i", "s", "t", "s", ":", " ">>

MsgNotFoundPrefix == 
    <<"M", "o", "v", "i", "e", " ", "n", "o", "t", " ", "f", "o", "u", "n", "d", ":", " ">>

\* The source's message starts with a check mark and a space, left out here.
MsgDownloadedPrefix == 
    <<"D", "o", "w", "n", "l", "o", "a", "d", "e", "d", ":", " ">>

MsgFailedPrefix == 
    <<"F", "a", "i", "l", "e", "d", " ", "t", "o", " ", "d", "o", "w", "n", "l", "o", "a", "d", " ", "p", "o", "s", "t", "e", "r", " ", "f", "o", "r", ":", " ">>

\* The text of item i's message of the given kind.
MessageText(i, kind) ==
    LET info == extract_movie_info(Filenames[i])
    IN  CASE kind = "parse"      -> MsgParse
          [] kind = "exists"     -> MsgExistsPrefix \o poster_filename(Filenames[i])
          [] kind = "notfound"   ->
                 MsgNotFoundPrefix \o info.title \o <<" ", "(">> \o info.year \o <<")">>
          [] kind = "downloaded" -> MsgDownloadedPrefix \o poster_filename(Filenames[i])
          [] kind = "dlfailed"   -> MsgFailedPrefix \o info.title
          [] OTHER               -> <<>>

NoResult == [success |-> FALSE, message |-> ""]

\* The outcome a result record stands for.
Status(r) ==
    CASE r.message = "parse"      -> "ParseFailed"
      [] r.message = "exists"     -> "AlreadyExists"
      [] r.message = "notfound"   -> "NotFound"
      [] r.message = "downloaded" -> "Downloaded"
      [] r.message = "dlfailed"   -> "DownloadFailed"
      [] OTHER                    -> "Pending"

(***************************************************************************)
(* Pure pieces of the HTTP calls.                                          *)
(***************************************************************************)
ShouldRetry_NoCap(r, sent) ==
    \/ r.kind = "error"
    \/ r.kind = "http" /\ r.status \in status_forcelist

ShouldRetry_AnyFailure(r, sent) ==
    /\ sent <= RetryTotal
    /\ \/ r.kind = "error"
       \/ r.kind = "http" /\ r.status >= 400

\* urllib3: a failed attempt is retried when it was a transport failure or
\* answered a status of the force list, and the retry count is not used up;
\* sent counts the attempts made so far, this one included.
ShouldRetry(r, sent) ==
    /\ sent <= RetryTotal
    /\ \/ r.kind = "error"
       \/ r.kind = "http" /\ r.status \in status_forcelist

\* response.raise_for_status() passes.
StatusOk(r) == r.kind = "http" /\ r.status < 400

\* What search_movie returns for the last attempt's outcome: "None", or the
\* first result: with a poster_path, without one, or no JSON object at all.
\* Every exception is caught and gives None.
search_movie(r, body) ==
    IF ~StatusOk(r) THEN "None"
    ELSE CASE body = "poster"     -> "poster"
           [] body = "no_poster"  -> "no_poster"
           [] body = "not_object" -> "not_object"
           [] OTHER               -> "None"

FetchOk_NoStatusCheck(r, body) == r.kind = "http" /\ body = "complete"

\* session.get and raise_for_status of download_poster succeed.
FetchOk(r, body) == StatusOk(r) /\ body = "complete"

Written_Elsewhere(c, outcome) == c

\* What the with-open block leaves at a path that held content c.
Written(c, outcome) ==
    CASE outcome = "ok"          -> "poster"
      [] outcome = "write_error" -> "truncated"
      [] OTHER                   -> c

\* extract_movie_info(filename) of every item of the pool.
Parsed == [i \in Items |-> extract_movie_info(Filenames[i])]

ParseOk_YearOnly(i) == Parsed[i].year # <<>>

\* `not title or not year` is false.
ParseOk(i) == Parsed[i].title # <<>> /\ Parsed[i].year # <<>>

Exists_WrongPath(files, i) == FALSE

\* poster_path.exists()
Exists(files, i) == files[PathOf(i)] # "absent"

\* "already exists" in result['message']
SaysAlreadyExists(i, r) == Contains(MessageText(i, r.message), AlreadyExistsText)

(***************************************************************************)
(* State.                                                                  *)
(***************************************************************************)
VARIABLES
    folderExists,   \* the target directory exists
    torrents,       \* the items whose *.torrent file is in the directory
    fs,             \* path -> what the path holds
    fsStart,        \* fs when the current run started
    run,            \* the number of the current run of the batch
    prev,           \* item -> the status the previous run recorded, or "-"
    opc,            \* where process_torrents is
    torrent_files,  \* the files of list(folder.glob("*.torrent"))
    submitted,      \* the files of torrent_files submitted so far
    queue,          \* the executor's work queue
    wpc,            \* item -> where its process_single_torrent call is
    attempts,       \* item -> HTTP attempts of its current session.get
    resp,           \* item -> outcome of its last HTTP attempt
    movie,          \* item -> what search_movie returned
    dl,             \* item -> how far download_poster got
    result,         \* item -> the result its call returned
    success_count,
    skip_count,
    fail_count,
    results,        \* the lists 'downloaded', 'skipped' and 'failed'
    report,         \* the filename lists the summary wrote
    sample,         \* the filename extract_movie_info is applied to on its own
    info            \* what extract_movie_info returned for sample

\* What no step of a batch changes.
dirVars == <<folderExists, torrents, sample, info>>

orchVars ==
    <<opc, torrent_files, submitted, success_count, skip_count, fail_count, results,
      report>>

workVars == <<wpc, attempts, resp, movie, dl, result>>

vars ==
    <<folderExists, torrents, fs, fsStart, run, prev, opc, torrent_files,
      submitted, queue, wpc, attempts, resp, movie, dl, result,
      success_count, skip_count, fail_count, results, report, sample, info>>

Running == {i \in Items : wpc[i] \in {"check", "search", "fetch", "write"}}

Finished == {i \in Items : wpc[i] \in {"returned", "raised", "collected", "failed"}}

NoResults == [downloaded |-> <<>>, skipped |-> <<>>, failed |-> <<>>]

NoReport == [downloaded |-> <<>>, failed |-> <<>>]

\* No filename is under test, and nothing was extracted.
NoSample == [kind |-> "none"]

NoInfo == [kind |-> "none"]

Init ==
    /\ folderExists \in BOOLEAN
    /\ torrents \in {S \in SUBSET BatchItems :
                        /\ Cardinality(S) <= MaxFiles
                        /\ ~folderExists => S = {}}
    /\ \E old \in SUBSET {PathOf(i) : i \in torrents} :
          fs = [p \in Paths |-> IF p \in old THEN "old" ELSE "absent"]
    /\ fsStart = fs
    /\ run = 1
    /\ prev = [i \in Items |-> "-"]
    /\ opc = "start"
    /\ torrent_files = {}
    /\ submitted = {}
    /\ queue = <<>>
    /\ wpc = [i \in Items |-> "idle"]
    /\ attempts = [i \in Items |-> 0]
    /\ resp = [i \in Items |-> NoResponse]
    /\ movie = [i \in Items |-> "-"]
    /\ dl = [i \in Items |-> "-"]
    /\ result = [i \in Items |-> NoResult]
    /\ success_count = 0
    /\ skip_count = 0
    /\ fail_count = 0
    /\ results = NoResults
    /\ report = NoReport
    /\ sample = NoSample
    /\ info = NoInfo

(***************************************************************************)
(* process_torrents                                                        *)
(***************************************************************************)
Discovered_NoEmptyCheck(exists, files) ==
    IF ~exists THEN "folder_not_found" ELSE "run"

\* Where process_torrents goes after the folder check and the listing:
\* it returns on a missing folder and on an empty listing.
Discovered(exists, files) ==
    IF ~exists THEN "folder_not_found"
    ELSE IF files = {} THEN "no_files"
    ELSE "run"

\* Lines 138-178: the folder check, the listing, the empty-listing check.
Discover ==
    /\ opc = "start"
    /\ torrent_files' = IF folderExists THEN torrents ELSE {}
    /\ opc' = Discovered(folderExists, torrents)
    /\ UNCHANGED <<dirVars, fs, fsStart, run, prev, submitted, queue, workVars,
                   success_count, skip_count, fail_count, results, report>>

\* executor.submit(process_single_torrent, tf, folder) for the next file
\* of the listing.  glob lists the files in an order of the directory's
\* choosing: the next file is any file not submitted yet.
Submit(tf) ==
    /\ opc = "run"
    /\ tf \in torrent_files \ submitted
    /\ submitted' = submitted \cup {tf}
    /\ queue' = Append(queue, tf)
    /\ UNCHANGED <<dirVars, fs, fsStart, run, prev, opc, torrent_files, workVars,
                   success_count, skip_count, fail_count, results, report>>

Aggregate_LostUpdate(i, r) ==
    IF r.success
    THEN IF SaysAlreadyExists(i, r)
         THEN /\ skip_count' = skip_count + 1
              /\ results' = [results EXCEPT !.skipped = Append(@, i)]
              /\ UNCHANGED <<success_count, fail_count>>
         ELSE /\ success_count' = success_count + 1
              /\ results' = [results EXCEPT !.downloaded = Append(@, i)]
              /\ UNCHANGED <<skip_count, fail_count>>
    ELSE /\ results' = [results EXCEPT
                           !.failed = Append(@, [filename |-> i, reason |-> r.message])]
         /\ UNCHANGED <<success_count, skip_count, fail_count>>

\* Lines 192-204: the counters and lists after the result r of item i.
Aggregate(i, r) ==
    IF r.success
    THEN IF SaysAlreadyExists(i, r)
         THEN /\ skip_count' = skip_count + 1
              /\ results' = [results EXCEPT !.skipped = Append(@, i)]
              /\ UNCHANGED <<success_count, fail_count>>
         ELSE /\ success_count' = success_count + 1
              /\ results' = [results EXCEPT !.downloaded = Append(@, i)]
              /\ UNCHANGED <<skip_count, fail_count>>
    ELSE /\ fail_count' = fail_count + 1
         /\ results' = [results EXCEPT
                           !.failed = Append(@, [filename |-> i, reason |-> r.message])]
         /\ UNCHANGED <<success_count, skip_count>>

\* One turn of the as_completed loop: future.result() of a finished call
\* returns its result, or raises what the call raised.
Collect(i) ==
    /\ opc = "run"
    /\ submitted = torrent_files
    /\ wpc[i] \in {"returned", "raised"}
    /\ IF wpc[i] = "returned"
       THEN /\ Aggregate(i, result[i])
            /\ wpc' = [wpc EXCEPT ![i] = "collected"]
            /\ opc' = opc
       ELSE /\ opc' = "abort"
            /\ wpc' = [wpc EXCEPT ![i] = "failed"]
            /\ UNCHANGED <<success_count, skip_count, fail_count, results>>
    /\ UNCHANGED report
    \* the call's frame is gone: only the future's result is left
    /\ attempts' = [attempts EXCEPT ![i] = 0]
    /\ resp' = [resp EXCEPT ![i] = NoResponse]
    /\ movie' = [movie EXCEPT ![i] = "-"]
    /\ dl' = [dl EXCEPT ![i] = "-"]
    /\ UNCHANGED <<dirVars, fs, fsStart, run, prev, torrent_files, submitted, queue,
                   result>>

\* The characters of the filenames in the order of their code points, the
\* order in which sorted compares strings.
CodePoints ==
    <<" ", "(", ")", ".", "0", "1", "2", "3", "4", "5", "6", "7", "8", "9",
      "A", "B", "C", "D", "E", "F", "G", "H", "I", "J", "K", "L", "M", "N", "O",
      "P", "Q", "R", "S", "T", "U", "V", "W", "X", "Y", "Z", "[", "]",
      "a", "b", "c", "d", "e", "f", "g", "h", "i", "j", "k", "l", "m", "n", "o",
      "p", "q", "r", "s", "t", "u", "v", "w", "x", "y", "z">>

ord(c) == CHOOSE k \in 1..Len(CodePoints) : CodePoints[k] = c

\* a < b as Python compares two strings: at the first place where they
\* differ, or by length when one is the start of the other.
StrLess(a, b) ==
    \E k \in 1..(Len(a) + 1) :
        /\ k <= Len(b)
        /\ \A j \in 1..(k - 1) : a[j] = b[j]
        /\ k <= Len(a) => ord(a[k]) < ord(b[k])

NameLess == [i \in Items |-> [j \in Items |-> StrLess(Filenames[i], Filenames[j])]]

RECURSIVE InsertionSort(_)
\* The filenames of s in ascending order, equal ones in the order of s.
InsertionSort(s) ==
    IF s = <<>> THEN <<>>
    ELSE LET front == InsertionSort(SubSeq(s, 1, Len(s) - 1))
             x == s[Len(s)]
             n == Cardinality({k \in 1..Len(front) : ~NameLess[x][front[k]]})
         IN  SubSeq(front, 1, n) \o <<x>> \o SubSeq(front, n + 1, Len(front))

sorted_AsCompleted(s) == s

\* Line 220: sorted(results['downloaded']).
sorted(s) == InsertionSort(s)

\* Line 226: sorted(results['failed'], key=lambda x: x['filename']).  A
\* file fails at most once, so the key names its entry.
sorted_by_filename(f) ==
    LET names == sorted([k \in 1..Len(f) |-> f[k].filename])
    IN  [k \in 1..Len(f) |-> f[CHOOSE m \in 1..Len(f) : f[m].filename = names[k]]]

LoopDone_AfterFirst == \E tf \in torrent_files : wpc[tf] = "collected"

\* The as_completed loop ends when it has yielded every future.
LoopDone == \A tf \in torrent_files : wpc[tf] = "collected"

\* Lines 208-231: the loop is over, the summary is written.
Summary ==
    /\ opc = "run"
    /\ submitted = torrent_files
    /\ LoopDone
    /\ opc' = "done"
    /\ report' = [downloaded |-> sorted(results.downloaded),
                  failed |-> sorted_by_filename(results.failed)]
    /\ UNCHANGED <<dirVars, fs, fsStart, run, prev, torrent_files, submitted, queue,
                   workVars, success_count, skip_count, fail_count, results>>

\* The exception leaves the with block, whose exit waits for every call
\* still queued or running, and then leaves process_torrents.
Abort ==
    /\ opc = "abort"
    /\ queue = <<>>
    /\ Running = {}
    /\ opc' = "crashed"
    /\ UNCHANGED <<dirVars, fs, fsStart, run, prev, torrent_files, submitted, queue,
                   workVars, success_count, skip_count, fail_count, results, report>>

\* The batch is run again on the directory as the last run left it.
Rerun ==
    /\ opc = "done"
    /\ run < MaxRuns
    /\ run' = run + 1
    /\ prev' = [i \in Items |-> IF i \in torrents THEN Status(result[i]) ELSE "-"]
    /\ fsStart' = fs
    /\ opc' = "start"
    /\ torrent_files' = {}
    /\ submitted' = {}
    /\ queue' = <<>>
    /\ wpc' = [i \in Items |-> "idle"]
    /\ attempts' = [i \in Items |-> 0]
    /\ resp' = [i \in Items |-> NoResponse]
    /\ movie' = [i \in Items |-> "-"]
    /\ dl' = [i \in Items |-> "-"]
    /\ result' = [i \in Items |-> NoResult]
    /\ success_count' = 0
    /\ skip_count' = 0
    /\ fail_count' = 0
    /\ results' = NoResults
    /\ report' = NoReport
    /\ UNCHANGED <<dirVars, fs>>

(***************************************************************************)
(* process_single_torrent, one action per blocking step.                   *)
(***************************************************************************)
Return(i, ok, kind) ==
    /\ result' = [result EXCEPT ![i] = [success |-> ok, message |-> kind]]
    /\ wpc' = [wpc EXCEPT ![i] = "returned"]

PoolHasIdleThread_Unbounded(running) == TRUE

\* ThreadPoolExecutor(max_workers=MAX_WORKERS): a thread runs one call at a
\* time, so a queued call starts only while fewer calls than threads run.
PoolHasIdleThread(running) == Cardinality(running) < MAX_WORKERS

\* A pool thread takes the head of the queue; lines 95-107.
StartWorker(i) ==
    /\ queue # <<>>
    /\ Head(queue) = i
    /\ PoolHasIdleThread(Running)
    /\ queue' = Tail(queue)
    /\ IF ParseOk(i)
       THEN /\ wpc' = [wpc EXCEPT ![i] = "check"]
            /\ UNCHANGED result
       ELSE Return(i, FALSE, "parse")
    /\ UNCHANGED <<dirVars, fs, fsStart, run, prev, orchVars, attempts, resp, movie, dl>>

\* Lines 109-116.
CheckExists(i) ==
    /\ wpc[i] = "check"
    /\ IF Exists(fs, i)
       THEN Return(i, TRUE, "exists")
       ELSE /\ wpc' = [wpc EXCEPT ![i] = "search"]
            /\ UNCHANGED result
    /\ UNCHANGED <<dirVars, fs, fsStart, run, prev, orchVars, queue, attempts, resp, movie, dl>>

\* One HTTP attempt of search_movie's session.get; after the last one,
\* lines 65-73 and 121-126 up to download_poster's first network call.
SearchAttempt(i) ==
    /\ wpc[i] = "search"
    /\ \E r \in Responses :
          LET sent == attempts[i] + 1
          IN  /\ attempts' = [attempts EXCEPT ![i] = sent]
              /\ resp' = [resp EXCEPT ![i] = r]
              /\ IF ShouldRetry(r, sent)
                 THEN UNCHANGED <<wpc, movie, dl, result>>
                 ELSE \E m \in {search_movie(r, body) : body \in SearchBodies} :
                      /\ movie' = [movie EXCEPT ![i] = m]
                      /\ CASE m = "None" ->
                                 /\ Return(i, FALSE, "notfound")
                                 /\ UNCHANGED dl
                           [] m = "not_object" ->
                                 \* movie.get raises AttributeError
                                 /\ wpc' = [wpc EXCEPT ![i] = "raised"]
                                 /\ UNCHANGED <<dl, result>>
                           [] m = "no_poster" ->
                                 /\ dl' = [dl EXCEPT ![i] = "no_ref"]
                                 /\ Return(i, FALSE, "dlfailed")
                           [] OTHER ->
                                 /\ wpc' = [wpc EXCEPT ![i] = "fetch"]
                                 /\ UNCHANGED <<dl, result>>
    /\ UNCHANGED <<dirVars, fs, fsStart, run, prev, orchVars, queue>>

\* One HTTP attempt of download_poster's session.get; after the last one,
\* line 84 and, when the fetch failed, lines 89-91 and 131-134.
FetchAttempt(i) ==
    /\ wpc[i] = "fetch"
    /\ \E r \in Responses :
          LET sent == IF dl[i] = "-" THEN 1 ELSE attempts[i] + 1
          IN  /\ attempts' = [attempts EXCEPT ![i] = sent]
              /\ resp' = [resp EXCEPT ![i] = r]
              /\ IF ShouldRetry(r, sent)
                 THEN /\ dl' = [dl EXCEPT ![i] = "fetching"]
                      /\ UNCHANGED <<wpc, result>>
                 ELSE \E ok \in {FetchOk(r, body) : body \in ImageBodies} :
                      IF ok
                      THEN /\ dl' = [dl EXCEPT ![i] = "fetched"]
                           /\ wpc' = [wpc EXCEPT ![i] = "write"]
                           /\ UNCHANGED result
                      ELSE /\ dl' = [dl EXCEPT ![i] = "fetch_failed"]
                           /\ Return(i, FALSE, "dlfailed")
    /\ UNCHANGED <<dirVars, fs, fsStart, run, prev, orchVars, queue, movie>>

\* Lines 86-91 and 128-134: the with-open block and the result.
WritePoster(i) ==
    /\ wpc[i] = "write"
    /\ \E outcome \in WriteOutcomes :
          /\ fs' = [fs EXCEPT ![PathOf(i)] = Written(@, outcome)]
          /\ dl' = [dl EXCEPT ![i] = IF outcome = "ok" THEN "ok" ELSE outcome]
          /\ IF outcome = "ok"
             THEN Return(i, TRUE, "downloaded")
             ELSE Return(i, FALSE, "dlfailed")
    /\ UNCHANGED <<dirVars, fsStart, run, prev, orchVars, queue, attempts, resp, movie>>

Next ==
    \/ Discover
    \/ \E tf \in torrents : Submit(tf)
    \/ \E i \in torrents : Collect(i)
    \/ Summary
    \/ Abort
    \/ Rerun
    \/ \E i \in torrents : StartWorker(i)
    \/ \E i \in torrents : CheckExists(i)
    \/ \E i \in torrents : SearchAttempt(i)
    \/ \E i \in torrents : FetchAttempt(i)
    \/ \E i \in torrents : WritePoster(i)

Spec == Init /\ [][Next]_vars

(***************************************************************************)
(* A directory with more files than the pool has threads.  Every file has  *)
(* its poster already, so that each call is one step long, and the batch   *)
(* is followed up to the as_completed loop: what the pool runs at a time   *)
(* is decided by then.                                                     *)
(***************************************************************************)
\* process_torrents has not been called on the directory fs.
NotStarted ==
    /\ fsStart = fs
    /\ run = 1
    /\ prev = [i \in Items |-> "-"]
    /\ opc = "start"
    /\ torrent_files = {}
    /\ submitted = {}
    /\ queue = <<>>
    /\ wpc = [i \in Items |-> "idle"]
    /\ attempts = [i \in Items |-> 0]
    /\ resp = [i \in Items |-> NoResponse]
    /\ movie = [i \in Items |-> "-"]
    /\ dl = [i \in Items |-> "-"]
    /\ result = [i \in Items |-> NoResult]
    /\ success_count = 0
    /\ skip_count = 0
    /\ fail_count = 0
    /\ results = NoResults
    /\ report = NoReport

PoolFiles == {i \in Items : ParseOk(i)}

PoolInit ==
    /\ folderExists = TRUE
    /\ torrents = PoolFiles
    /\ fs = [p \in Paths |-> IF \E i \in PoolFiles : PathOf(i) = p
                               THEN "old" ELSE "absent"]
    /\ NotStarted
    /\ sample = NoSample
    /\ info = NoInfo

\* The files of this directory behave alike, and glob is taken to list
\* them in the order of the pool.
PoolSubmit(tf) ==
    /\ \A other \in torrent_files \ submitted : tf <= other
    /\ Submit(tf)

PoolNext ==
    \/ Discover
    \/ \E tf \in Items : PoolSubmit(tf)
    \/ \E i \in Items : StartWorker(i)
    \/ \E i \in Items : CheckExists(i)

PoolSpec == PoolInit /\ [][PoolNext]_vars

(***************************************************************************)
(* A directory whose one file has the words "already exists" in its name.  *)
(***************************************************************************)
NamedInit ==
    /\ folderExists = TRUE
    /\ torrents = {NamedItem}
    /\ \E c \in {"absent", "old"} :
          fs = [p \in Paths |-> IF p = PathOf(NamedItem) THEN c ELSE "absent"]
    /\ NotStarted
    /\ sample = NoSample
    /\ info = NoInfo

NamedSpec == NamedInit /\ [][Next]_vars

(***************************************************************************)
(* extract_movie_info on its own: a filename is drawn, the function is     *)
(* applied to it.  A filename is either built as the convention has it,    *)
(* Title (YYYY) and suffix tags, or is any short string.                   *)
(***************************************************************************)
\* The longest title, and the longest free name, in characters.
MaxChars == 5

SampleChars == {"A", " ", "1", "(", ")"}

Strings(n) == UNION {[1..k -> SampleChars] : k \in 0..n}

Inception == <<"I", "n", "c", "e", "p", "t", "i", "o", "n">>

SampleTitles ==
    Strings(MaxChars) \cup {Inception, <<"Y", "T", "S">>, <<"B", "l", "u", "R", "a", "y", " ", "A">>}

SampleYears == {<<"2", "0", "1", "0">>}

SampleSuffixes ==
    {<<>>, <<" ", "1", "0", "8", "0", "p", " ", "B", "l", "u", "R", "a", "y", " ", "Y", "T", "S", ".", "M", "X">>,
     <<" ", "[", "7", "2", "0", "p", "]", " ", "W", "E", "B", "R", "i", "p">>}

Samples ==
    [kind : {"form"}, title : SampleTitles, year : SampleYears, suffix : SampleSuffixes]
        \cup [kind : {"free"}, name : Strings(MaxChars)]

\* The filename of a sample.
SampleName(smp) ==
    IF smp.kind = "form"
    THEN smp.title \o <<" ", "(">> \o smp.year \o <<")">> \o smp.suffix \o DotTorrent
    ELSE smp.name \o DotTorrent

ExtractInit ==
    /\ sample \in Samples
    /\ info = NoInfo
    /\ folderExists = FALSE
    /\ torrents = {}
    /\ fs = [p \in Paths |-> "absent"]
    /\ NotStarted

\* title, year = extract_movie_info(torrent_file.name), line 102.
Extract ==
    /\ sample # NoSample
    /\ info = NoInfo
    /\ info' = extract_movie_info(SampleName(sample))
    /\ UNCHANGED <<folderExists, torrents, sample, fs, fsStart, run, prev, queue,
                   orchVars, workVars>>

ExtractNext == Extract

ExtractSpec == ExtractInit /\ [][ExtractNext]_vars

TypeOK ==
    /\ folderExists \in BOOLEAN
    /\ torrents \subseteq Items
    /\ fs \in [Paths -> Contents]
    /\ run \in 1..MaxRuns
    /\ opc \in {"start", "folder_not_found", "no_files", "run", "abort", "crashed", "done"}
    /\ submitted \subseteq torrent_files
    /\ torrent_files \subseteq torrents
    /\ wpc \in [Items -> {"idle", "check", "search", "fetch", "write",
                          "returned", "raised", "collected", "failed"}]
    /\ attempts \in [Items -> 0..(RetryTotal + 1)]
    /\ movie \in [Items -> {"-", "None", "poster", "no_poster", "not_object"}]

(***************************************************************************)
(* Properties.                                                             *)
(***************************************************************************)
\* The filenames the orchestrator has recorded, list by list.
Recorded ==
    results.downloaded \o results.skipped
        \o [k \in 1..Len(results.failed) |-> results.failed[k].filename]

\* The call of item i returned and its result is not collected yet, so the
\* call's attempts, last response, match and download state are in view.
Returned(i) == wpc[i] = "returned"

PosterAt(i) == fs[PathIndex[i]]

\* C1: a completed batch has recorded exactly one outcome per discovered
\* file: as many outcomes as files, each file once, and at no moment of a
\* batch is a file recorded twice or a file recorded that was not listed.
C1_OneOutcomePerFile ==
    /\ \A a, b \in 1..Len(Recorded) :
          Filenames[Recorded[a]] = Filenames[Recorded[b]] => a = b
    /\ \A a \in 1..Len(Recorded) : Recorded[a] \in torrents
    /\ success_count + skip_count + fail_count = Len(Recorded)
    /\ opc = "done" =>
          /\ Len(Recorded) = Cardinality(torrents)
          /\ {Recorded[a] : a \in 1..Len(Recorded)} = torrents
          /\ \A i \in torrents : Status(result[i]) # "Pending"

C1_Witness ==
    /\ opc = "done"
    /\ Cardinality(torrents) >= 2
    /\ Len(results.downloaded) >= 1
    /\ Len(results.failed) >= 1

\* C2: the existence check comes before every network call.  A check that
\* finds <stem>.jpg ends the call with AlreadyExists and no HTTP attempt
\* made, and every HTTP attempt is made for an item whose path held
\* nothing when the attempt was sent.
C2_CheckBeforeNetwork ==
    [][\A i \in Items :
          /\ (wpc[i] = "check" /\ PosterAt(i) # "absent" /\ wpc'[i] # "check") =>
                /\ wpc'[i] = "returned"
                /\ Status(result'[i]) = "AlreadyExists"
                /\ attempts'[i] = 0 /\ movie'[i] = "-" /\ dl'[i] = "-"
          /\ (wpc[i] = "check" /\ PosterAt(i) = "absent" /\ wpc'[i] # "check") =>
                wpc'[i] = "search"
          /\ (wpc[i] \in {"search", "fetch"} /\ resp'[i] # resp[i]) =>
                PosterAt(i) = "absent"
          /\ (Status(result'[i]) = "AlreadyExists" /\ wpc'[i] = "returned") =>
                attempts'[i] = 0 /\ resp'[i] = NoResponse
      ]_vars

C2_Witness ==
    \E i \in Items :
        /\ Returned(i)
        /\ Status(result[i]) = "AlreadyExists"
        /\ fsStart[PathIndex[i]] = "old"

C4_FailureNeverAbortsBatch ==
    /\ opc \notin {"abort", "crashed"}
    /\ \A a, b \in torrents :
          (/\ opc = "done"
           /\ Status(result[a]) = "NotFound"
           /\ Status(result[b]) = "Downloaded") =>
              /\ \E k \in 1..Len(results.failed) : results.failed[k].filename = a
              /\ \E k \in 1..Len(results.downloaded) : results.downloaded[k] = b

\* C5: no call of process_single_torrent ends by raising: every call that
\* is over has returned a result, and future.result() never raises.
C5_NoExceptionEscapes ==
    /\ \A i \in Items : wpc[i] \notin {"raised", "failed"}
    /\ opc \notin {"abort", "crashed"}

\* C6 as stated: no call makes more than 3 HTTP attempts.
C6_AtMostThreeAttempts == \A i \in Items : attempts[i] <= 3

\* C6, amended: a call makes at most 4 HTTP attempts, the first attempt and
\* the RetryTotal = 3 retries of it; after the fourth the call is over.
C6_AtMostFourAttempts ==
    \A i \in Items :
        /\ attempts[i] <= RetryTotal + 1
        /\ attempts[i] = RetryTotal + 1 =>
              /\ wpc[i] # "search"
              /\ ~(wpc[i] = "fetch" /\ dl[i] = "fetching")

C6_Witness ==
    \E i \in Items :
        /\ Returned(i)
        /\ attempts[i] = RetryTotal + 1
        /\ resp[i] = [kind |-> "http", status |-> 503]
        /\ Status(result[i]) = "NotFound"

\* The failures the retry policy names.
Retryable(r) ==
    \/ r.kind = "error"
    \/ r.kind = "http" /\ r.status \in {429, 500, 502, 503, 504}

\* Item i made an HTTP attempt in this step.
Attempted(i) ==
    /\ wpc[i] \in {"search", "fetch"}
    /\ <<wpc[i], attempts[i], resp[i], dl[i]>>' # <<wpc[i], attempts[i], resp[i], dl[i]>>

\* C7: an attempt is followed by another attempt of the same call only if
\* it was a transport failure or answered a status of the retry set, and
\* then always while retries are left.  A search answered 503 and then 200
\* on its third attempt ends there, with the match the body holds; a
\* search answered 404 on its first attempt ends there with no match, and
\* the item is NotFound.
C7_RetryOnlyRetryable ==
    [][\A i \in Items :
          Attempted(i) =>
              LET r       == resp'[i]
                  retried == wpc'[i] = wpc[i]
              IN  /\ retried => Retryable(r)
                  /\ (Retryable(r) /\ attempts'[i] <= RetryTotal) => retried
                  /\ (wpc[i] = "search" /\ attempts[i] = 2 /\ Retryable(resp[i])
                        /\ r = [kind |-> "http", status |-> 200]) =>
                        /\ ~retried
                        /\ attempts'[i] = 3
                        /\ movie'[i] \in {search_movie(r, b) : b \in SearchBodies}
                  /\ (wpc[i] = "search" /\ attempts[i] = 0
                        /\ r = [kind |-> "http", status |-> 404]) =>
                        /\ attempts'[i] = 1
                        /\ movie'[i] = "None"
                        /\ wpc'[i] = "returned"
                        /\ Status(result'[i]) = "NotFound"
      ]_vars

C7_Witness ==
    \E i, j \in Items :
        /\ wpc[i] = "fetch" /\ dl[i] = "-"
        /\ attempts[i] = 3
        /\ resp[i] = [kind |-> "http", status |-> 200]
        /\ movie[i] = "poster"
        /\ Returned(j)
        /\ attempts[j] = 1
        /\ resp[j] = [kind |-> "http", status |-> 404]
        /\ Status(result[j]) = "NotFound"

\* The download_poster call of item i is over and its fetch failed.
FetchFailed(i) ==
    /\ Returned(i)
    /\ dl[i] \notin {"-", "no_ref"}
    /\ \/ dl[i] = "fetch_failed"
       \/ resp[i].kind = "error"
       \/ resp[i].status >= 400

\* C8: while an image fetch is under way the item's path holds nothing, and
\* after a fetch that failed it still holds nothing, as when the run
\* started; the item is DownloadFailed.
C8_FailedFetchLeavesNoFile ==
    \A i \in Items :
        /\ wpc[i] = "fetch" => PosterAt(i) = "absent"
        /\ FetchFailed(i) =>
              /\ PosterAt(i) = "absent"
              /\ PosterAt(i) = fsStart[PathIndex[i]]
              /\ Status(result[i]) = "DownloadFailed"
              /\ dl[i] = "fetch_failed"

C8_Witness ==
    \E i \in Items :
        /\ FetchFailed(i)
        /\ resp[i] = [kind |-> "http", status |-> 200]

\* C9: a write that fails after the fetch succeeded is DownloadFailed and
\* leaves no truncated file at the path, and the next run does not report
\* AlreadyExists for an item the previous run recorded as DownloadFailed.
C9_FailedWriteLeavesNoFile ==
    \A i \in Items :
        /\ (Returned(i) /\ dl[i] \in {"open_error", "write_error"}) =>
              /\ Status(result[i]) = "DownloadFailed"
              /\ PosterAt(i) # "truncated"
        /\ (run >= 2 /\ prev[i] = "DownloadFailed") =>
              Status(result[i]) # "AlreadyExists"

\* C10: a missing folder or an empty listing ends process_torrents at its
\* report and nowhere else: nothing is submitted, no call starts, no HTTP
\* attempt is made, no path is written, and the call does not end in an
\* exception or go on to the loop and the summary.
C10_NothingToDo ==
    /\ (~folderExists \/ torrents = {}) =>
          opc \in {"start", "folder_not_found", "no_files"}
    /\ opc = "folder_not_found" <=> (opc # "start" /\ ~folderExists)
    /\ opc = "no_files" <=> (opc # "start" /\ folderExists /\ torrents = {})
    /\ opc \in {"folder_not_found", "no_files"} =>
          /\ submitted = {} /\ queue = <<>>
          /\ \A i \in Items :
                /\ wpc[i] = "idle"
                /\ attempts[i] = 0 /\ resp[i] = NoResponse
                /\ result[i] = NoResult
          /\ fs = fsStart
          /\ results = NoResults
          /\ success_count + skip_count + fail_count = 0

C10_Witness == opc = "no_files" /\ folderExists

(***************************************************************************)
(* The batch under fair scheduling: the orchestrator and the pool threads  *)
(* keep taking their steps, and every network call returns.  Running the   *)
(* batch again is the user's choice and is under no fairness.              *)
(***************************************************************************)
Fairness ==
    /\ WF_vars(Discover)
    /\ WF_vars(\E tf \in Items : Submit(tf))
    /\ WF_vars(\E i \in Items : Collect(i))
    /\ WF_vars(Summary)
    /\ WF_vars(Abort)
    /\ WF_vars(\E i \in Items : StartWorker(i))
    /\ WF_vars(\E i \in Items : CheckExists(i))
    /\ WF_vars(\E i \in Items : SearchAttempt(i))
    /\ WF_vars(\E i \in Items : FetchAttempt(i))
    /\ WF_vars(\E i \in Items : WritePoster(i))

FairSpec == Spec /\ Fairness

\* C11: a batch that found at least one file always comes to write its
\* summary, however many items fail, and the summary is written only when
\* every submitted call is over and its outcome is recorded.
C11_SummaryAlwaysWritten ==
    /\ [](opc = "done" =>
            \A tf \in torrent_files : tf \in submitted /\ wpc[tf] = "collected")
    /\ (opc = "run") ~> (opc = "done")

\* C12: at no moment do more than MAX_WORKERS calls of
\* process_single_torrent run; a queued call waits while all threads are
\* busy; and every listed file is handed to the pool exactly once: a
\* submitted file is either still queued, once, or its call has started,
\* no other file is queued or started, and when the queue is empty and no
\* call runs, the call of every listed file is over.
C12_BoundedPoolDispatchesOnce ==
    /\ Cardinality(Running) <= MAX_WORKERS
    /\ \A a, b \in 1..Len(queue) : queue[a] = queue[b] => a = b
    /\ \A i \in Items :
          LET queued == \E k \in 1..Len(queue) : queue[k] = i
              started == wpc[i] # "idle"
          IN  /\ i \in submitted => (queued /\ ~started) \/ (started /\ ~queued)
              /\ i \notin submitted => ~queued /\ ~started
    /\ submitted \subseteq torrent_files
    /\ (opc = "run" /\ submitted = torrent_files /\ queue = <<>> /\ Running = {})
          => \A tf \in torrent_files : tf \in Finished

\* All threads are busy and a submitted call waits in the queue.
C12_Witness ==
    /\ Cardinality(Running) = MAX_WORKERS
    /\ queue # <<>>
    /\ Cardinality(torrent_files) > MAX_WORKERS

\* extract_movie_info was applied to a filename built as Title (YYYY) and
\* suffix tags.
FormExtracted == sample # NoSample /\ sample.kind = "form" /\ info # NoInfo

\* Four digits in a row somewhere after the first character of t.
FourDigitsAfterFirst(t) ==
    \E k \in 2..(Len(t) - YearDigits + 1) :
        \A j \in 0..(YearDigits - 1) : t[k + j] \in Digits

\* A bracketed part, or one of the tag words the clean-up removes, in t.
HasTagOrBrackets(t) ==
    \/ \E a, b \in 1..Len(t) :
          a < b /\ ((t[a] = "(" /\ t[b] = ")") \/ (t[a] = "[" /\ t[b] = "]"))
    \/ \E k \in 1..Len(QualityTags) : Contains(t, QualityTags[k])
    \/ \E at \in 1..Len(t) :
          StartsWithAt(t, <<"S", ".">>, at) /\ at + 2 <= Len(t) /\ t[at + 2] \in Digits

\* C13 as stated: for every filename Title (YYYY) followed by suffix tags,
\* extract_movie_info returns the trimmed Title and YYYY.
C13_TitleAndYearOfEveryName ==
    FormExtracted => info = [title |-> Strip(sample.title), year |-> sample.year]

\* C13: for a filename Title (YYYY) followed by suffix tags, whose Title has
\* no four digits in a row after its first character, no bracketed part and
\* no tag word, extract_movie_info returns the trimmed Title and YYYY, and
\* nothing of the suffix.
C13_TitleAndYearOfPlainTitle ==
    (FormExtracted /\ ~FourDigitsAfterFirst(sample.title)
                   /\ ~HasTagOrBrackets(sample.title))
        => info = [title |-> Strip(sample.title), year |-> sample.year]

\* "Inception (2010) 1080p BluRay YTS.MX.torrent" was parsed, and gave
\* ("Inception", "2010").
C13_Witness ==
    /\ FormExtracted
    /\ sample.title = Inception
    /\ sample.suffix = <<" ", "1", "0", "8", "0", "p", " ", "B", "l", "u", "R", "a", "y", " ", "Y", "T", "S", ".", "M", "X">>
    /\ info = [title |-> Inception, year |-> <<"2", "0", "1", "0">>]

\* The items whose filename has no four digits in a row, and those whose
\* title is empty once the tags are removed.
Unparseable ==
    {i \in Items :
        \/ ~\E k \in 1..(Len(Filenames[i]) - YearDigits + 1) :
               \A j \in 0..(YearDigits - 1) : Filenames[i][k + j] \in Digits
        \/ Parsed[i].title = <<>>}

\* C14: the call of a file whose name has no four digits in a row, or whose
\* cleaned title is empty, returns ParseFailed and does nothing else: it
\* never reaches the existence check, the search, the fetch or the write,
\* sends no request, and leaves the poster path as the run found it, also
\* when a poster is already there.
C14_ParseFailureComesFirst ==
    \A i \in Unparseable :
        /\ wpc[i] \in {"idle", "returned", "collected"}
        /\ wpc[i] # "idle" => Status(result[i]) = "ParseFailed" /\ ~result[i].success
        /\ attempts[i] = 0 /\ resp[i] = NoResponse /\ movie[i] = "-" /\ dl[i] = "-"
        /\ PosterAt(i) = fsStart[PathIndex[i]]

\* A file with a year and a title that is all tag returned ParseFailed
\* although its poster is there.
C14_Witness ==
    \E i \in Unparseable :
        /\ Parsed[i].year # <<>>
        /\ Returned(i)
        /\ Status(result[i]) = "ParseFailed"
        /\ PosterAt(i) = "old"

\* C15: the orchestrator counts and lists a file as downloaded exactly when
\* its call fetched and wrote a new poster, and as skipped exactly when its
\* call found the poster already there, whatever the filename.
C15_ReportMatchesOutcome ==
    LET collected == {i \in Items : wpc[i] = "collected"}
        listed(l) == {i \in Items : \E k \in 1..Len(l) : l[k] = i}
        with(st)  == {i \in collected : Status(result[i]) = st}
    IN  /\ listed(results.downloaded) = with("Downloaded")
        /\ listed(results.skipped) = with("AlreadyExists")
        /\ success_count = Cardinality(with("Downloaded"))
        /\ skip_count = Cardinality(with("AlreadyExists"))

\* C16: the counters and the lists change in one place only, the
\* orchestrator's turn of the as_completed loop that takes one finished
\* call's result, and there by exactly one count and one list entry; no
\* step of a worker changes them; and in whatever order the calls
\* complete, the summary is written with Downloaded + Skipped + Failed
\* equal to the number of files found.
C16_SingleAggregationPoint ==
    [][LET tallies == <<success_count, skip_count, fail_count, results>>
           total == success_count + skip_count + fail_count
           taken == {i \in Items : wpc[i] = "returned" /\ wpc'[i] = "collected"}
       IN  /\ tallies' # tallies =>
                 \/ opc = "done" /\ opc' = "start"
                 \/ /\ opc = "run"
                    /\ Cardinality(taken) = 1
                    /\ \A i \in Items \ taken : wpc'[i] = wpc[i]
           /\ taken # {} =>
                 /\ total' = total + 1
                 /\ Len(Recorded') = Len(Recorded) + 1
           /\ opc' = "done" => total' = Cardinality(torrent_files')
      ]_vars

\* The summary of a batch of two files, one downloaded and one failed.
C16_Witness ==
    /\ opc = "done"
    /\ success_count = 1
    /\ fail_count = 1
    /\ skip_count = 0
    /\ Cardinality(torrent_files) = 2

\* The filenames of a list of the report.
ReportedNames(l) == [k \in 1..Len(l) |-> Filenames[l[k]]]

\* Every name of the list is less than the next one.
Ascending(names) ==
    \A k \in 1..(Len(names) - 1) : StrLess(names[k], names[k + 1])

\* C17: the summary writes the Newly Downloaded list and the Failed list
\* in ascending order of filename, each holding exactly the entries the
\* orchestrator recorded; the written lists are thus decided by which files
\* had which outcome and not by the order in which the calls completed.
C17_ReportListsAscending ==
    opc = "done" =>
        LET failedNames ==
                [k \in 1..Len(report.failed) |-> report.failed[k].filename]
            entries(l) == {l[k] : k \in 1..Len(l)}
        IN  /\ Ascending(ReportedNames(report.downloaded))
            /\ Ascending(ReportedNames(failedNames))
            /\ Len(report.downloaded) = Len(results.downloaded)
            /\ Len(report.failed) = Len(results.failed)
            /\ entries(report.downloaded) = entries(results.downloaded)
            /\ entries(report.failed) = entries(results.failed)

\* Two files were downloaded and the one with the later name completed
\* first; the summary lists them with the earlier name first.
C17_Witness ==
    /\ opc = "done"
    /\ Len(results.downloaded) = 2
    /\ report.downloaded # results.downloaded
    /\ StrLess(Filenames[report.downloaded[1]], Filenames[report.downloaded[2]])

\* C18: a call returns Downloaded only when the search returned a match
\* with a poster reference, the fetch was answered without an error status
\* and the poster is at the item's path, where it stays for the rest of the
\* run; a call whose search returned no match returns NotFound, and one
\* whose match has no poster reference returns DownloadFailed; and an image
\* is fetched or written only for a match with a poster reference.
C18_DownloadedMeansFetchedAndWritten ==
    \A i \in Items :
        /\ wpc[i] \in {"fetch", "write"} => movie[i] = "poster"
        /\ Status(result[i]) = "Downloaded" =>
              /\ result[i].success
              /\ PosterAt(i) = "poster"
        /\ (Returned(i) /\ Status(result[i]) = "Downloaded") =>
              /\ movie[i] = "poster"
              /\ dl[i] = "ok"
              /\ StatusOk(resp[i])
        /\ (Returned(i) /\ movie[i] = "None") =>
              /\ Status(result[i]) = "NotFound"
              /\ dl[i] = "-"
              /\ PosterAt(i) = "absent"
        /\ (Returned(i) /\ movie[i] = "no_poster") =>
              /\ Status(result[i]) = "DownloadFailed"
              /\ dl[i] = "no_ref"
              /\ PosterAt(i) = "absent"

\* One call returned Downloaded while another had found no match, or a
\* match without a poster reference.
C18_Witness ==
    \E i, j \in Items :
        /\ Returned(i) /\ Status(result[i]) = "Downloaded" /\ PosterAt(i) = "poster"
        /\ Returned(j) /\ movie[j] \in {"None", "no_poster"}

\* C19: a poster that is there when the batch starts is never written: it
\* holds at every moment what it held at the start; a call goes on to the
\* search, the fetch and the write only for a path it saw empty; two calls
\* never write the same path; and every change of a file is the write of
\* the one call whose item the path belongs to, to a path that was empty.
C19_ExistingPosterUntouched ==
    /\ [](/\ \A p \in Paths : fsStart[p] # "absent" => fs[p] = fsStart[p]
          /\ \A i \in Items :
                wpc[i] \in {"search", "fetch", "write"} =>
                    fsStart[PathIndex[i]] = "absent" /\ PosterAt(i) = "absent"
          /\ \A i \in Items :
                wpc[i] = "write" =>
                    \A j \in Items \ {i} :
                        wpc[j] = "write" => PathIndex[i] # PathIndex[j])
    /\ [][\A p \in Paths :
            fs'[p] # fs[p] =>
                /\ fs[p] = "absent"
                /\ \A q \in Paths \ {p} : fs'[q] = fs[q]
                /\ \E i \in Items :
                      /\ PathIndex[i] = p
                      /\ wpc[i] = "write" /\ wpc'[i] = "returned"
                      /\ \A j \in Items \ {i} : wpc'[j] = wpc[j]
         ]_vars

\* One file's poster was there at the start and its call returned
\* AlreadyExists; the other file's poster was written beside it.
C19_Witness ==
    \E i, j \in Items :
        /\ fsStart[PathIndex[i]] = "old" /\ PosterAt(i) = "old"
        /\ Returned(i) /\ Status(result[i]) = "AlreadyExists"
        /\ fsStart[PathIndex[j]] = "absent" /\ PosterAt(j) = "poster"

\* extract_movie_info was applied to the sample.
Extracted == sample # NoSample /\ info # NoInfo

\* The sample's filename without its ".torrent".
BaseName ==
    IF sample.kind = "form"
    THEN sample.title \o <<" ", "(">> \o sample.year \o <<")">> \o sample.suffix
    ELSE sample.name

\* Four digits in a row start at position p of name.
FourDigitsAt(name, p) ==
    /\ p >= 1
    /\ p + YearDigits - 1 <= Len(name)
    /\ \A j \in 0..(YearDigits - 1) : name[p + j] \in Digits

\* What extract_movie_info returns when the year is at position y of name:
\* the year's four digits, and as title what is before the year, less one
\* opening bracket next to it, cleaned and trimmed.
InfoForYearAt(name, y) ==
    LET b == IF y > 2 /\ name[y - 1] \in OpenBrackets THEN 1 ELSE 0
    IN  [title |-> Strip(StripTags(Strip(SubSeq(name, 1, y - 1 - b)), 1)),
         year  |-> SubSeq(name, y, y + YearDigits - 1)]

\* C20 as stated: the year is the leftmost run of exactly four digits of the
\* filename, and the raw title is everything before that run.
C20_LeftmostExactRunIsYear ==
    Extracted =>
        LET name == BaseName
            runs == {p \in 1..Len(name) :
                        /\ FourDigitsAt(name, p)
                        /\ p = 1 \/ name[p - 1] \notin Digits
                        /\ p + YearDigits > Len(name) \/ name[p + YearDigits] \notin Digits}
        IN  IF runs = {} THEN info.year = <<>>
            ELSE info = InfoForYearAt(name, CHOOSE p \in runs : \A q \in runs : p <= q)

\* C20: the year is the leftmost four digits in a row that start at or after
\* the second character of the filename, whether or not more digits
\* follow; the raw title is everything before them; and a filename without
\* such digits gives no title and no year.
C20_LeftmostFourDigitsAfterFirst ==
    Extracted =>
        LET name == BaseName
            starts == {p \in 2..Len(name) : FourDigitsAt(name, p)}
        IN  IF starts = {} THEN info = [title |-> <<>>, year |-> <<>>]
            ELSE info = InfoForYearAt(name, CHOOSE p \in starts : \A q \in starts : p <= q)

\* A filename with two runs of four digits after its first character was
\* parsed, and the left run is the year.
C20_Witness ==
    /\ Extracted
    /\ sample.kind = "form"
    /\ sample.title = <<"A", "1", "1", "1", "1">>
    /\ info.year = <<"1", "1", "1", "1">>

=============================================================================
